---- MODULE Spec2Model ----
(***************************************************************************)
(* Model of src/main.rs: a tile map carved by make_map, two Objects, and   *)
(* the render / wait-for-key loop of game_loop.                            *)
(*                                                                         *)
(* The tcod toolkit is the environment: a console is a grid of cells       *)
(* (character, foreground, background) plus a default foreground and       *)
(* background; the key that wait_for_keypress returns and the moment the   *)
(* window is closed are chosen by the environment.                         *)
(***************************************************************************)
EXTENDS Integers, Sequences, FiniteSets

VARIABLES
    map,        \* game.map : Vec<Vec<Tile>>, indexed map[x][y]
    objects,    \* game.objects : Vec<Object>, index 1 is objects[0] of the code
    con,        \* tcod.con : the offscreen console
    root,       \* tcod.root : the root console (what flush will present)
    screen,     \* the cells last presented by root.flush()
    closed,     \* what tcod.root.window_closed() returns
    key,        \* handle_keys' local Key (code, alt); NoKey outside handle_keys
    args,       \* the (dx, dy) of the move_by call in progress, <<>> when none
    pc          \* position of the single thread of control

vars == <<map, objects, con, root, screen, closed, key, args, pc>>

----------------------------------------------------------------------------
(* Constants of the program.  A Color is modelled by its name: the code    *)
(* only copies and compares colors.                                        *)

SCREEN_WIDTH == 80
SCREEN_HEIGHT == 50
MAP_WIDTH == 80
MAP_HEIGHT == 45

BLACK == "black"
WHITE == "white"
YELLOW == "yellow"
COLOR_DARK_WALL == "dark_wall"
COLOR_DARK_GROUND == "dark_ground"

----------------------------------------------------------------------------
(* Tile, Rect, Object *)

\* Tile::empty() that lets objects through but not sight.
Tile_empty_opaque == [blocked |-> FALSE, block_sight |-> TRUE]

Tile_empty == [blocked |-> FALSE, block_sight |-> FALSE]

Tile_wall == [blocked |-> TRUE, block_sight |-> TRUE]

Rect_new(x1, y1, w, h) == [x1 |-> x1, x2 |-> x1 + w, y1 |-> y1, y2 |-> y1 + h]

Object_new(x, y, char, color) == [x |-> x, y |-> y, char |-> char, color |-> color]

min(a, b) == IF a <= b THEN a ELSE b

max(a, b) == IF a >= b THEN a ELSE b

\* Indexing map[x as usize][y as usize] panics unless both indices are inside
\* the vectors; a negative i32 cast to usize is a huge index.
index_ok(m, x, y) == x \in DOMAIN m /\ y \in DOMAIN m[x]

----------------------------------------------------------------------------
(* Map generation *)

\* The grid allocated as vec![vec![Tile::empty(); MAP_HEIGHT]; MAP_WIDTH].
all_empty == [x \in 0..(MAP_WIDTH - 1) |-> [y \in 0..(MAP_HEIGHT - 1) |-> Tile_empty]]

\* vec![vec![Tile::wall(); MAP_HEIGHT]; MAP_WIDTH]
all_walls == [x \in 0..(MAP_WIDTH - 1) |-> [y \in 0..(MAP_HEIGHT - 1) |-> Tile_wall]]

\* add_room carving from x1 and y1 themselves instead of x1 + 1 and y1 + 1.
add_room_from_corner(room, m) ==
    [x \in DOMAIN m |-> [y \in DOMAIN m[x] |->
        IF x \in room.x1..(room.x2 - 1) /\ y \in room.y1..(room.y2 - 1)
        THEN Tile_empty
        ELSE m[x][y]]]

\* for x in room.x1 + 1..room.x2 { for y in room.y1 + 1..room.y2 { ... } }
add_room(room, m) ==
    [x \in DOMAIN m |-> [y \in DOMAIN m[x] |->
        IF x \in (room.x1 + 1)..(room.x2 - 1) /\ y \in (room.y1 + 1)..(room.y2 - 1)
        THEN Tile_empty
        ELSE m[x][y]]]

\* add_h_tunnel carving from the left edge of the grid: 0..max(x1, x2) + 1.
add_h_tunnel_from_edge(x1, x2, y, m) ==
    [x \in DOMAIN m |-> [yy \in DOMAIN m[x] |->
        IF x \in 0..max(x1, x2) /\ yy = y
        THEN Tile_empty
        ELSE m[x][yy]]]

\* add_h_tunnel carving a column instead of a row: map[y][x] for x in the range.
add_h_tunnel_transposed(x1, x2, y, m) ==
    [x \in DOMAIN m |-> [yy \in DOMAIN m[x] |->
        IF yy \in min(x1, x2)..max(x1, x2) /\ x = y
        THEN Tile_empty
        ELSE m[x][yy]]]

\* (min(x1, x2)..max(x1, x2) + 1).for_each(|x| map[x][y] = Tile::empty())
add_h_tunnel(x1, x2, y, m) ==
    [x \in DOMAIN m |-> [yy \in DOMAIN m[x] |->
        IF x \in min(x1, x2)..max(x1, x2) /\ yy = y
        THEN Tile_empty
        ELSE m[x][yy]]]

\* (min(y1, y2)..max(y1, y2) + 1).for_each(|y| map[x][y] = Tile::empty());
\* make_map does not call it.
add_v_tunnel(y1, y2, x, m) ==
    [xx \in DOMAIN m |-> [y \in DOMAIN m[xx] |->
        IF y \in min(y1, y2)..max(y1, y2) /\ xx = x
        THEN Tile_empty
        ELSE m[xx][y]]]

room1 == Rect_new(20, 15, 10, 15)

room2 == Rect_new(50, 15, 10, 15)

\* The whole of make_map as a function.
make_map == add_h_tunnel(25, 55, 23, add_room(room2, add_room(room1, all_walls)))

----------------------------------------------------------------------------
(* Object::move_by *)

\* move_by without the blocked test: the candidate is always committed.
move_by_unchecked(self, dx, dy, m) ==
    LET x == self.x + dx
        y == self.y + dy
    IN  IF ~index_ok(m, x, y)
        THEN [self |-> self, panicked |-> TRUE]
        ELSE [self |-> [self EXCEPT !.x = x, !.y = y], panicked |-> FALSE]

\* move_by testing the cell the object stands on instead of the candidate.
move_by_tests_current(self, dx, dy, m) ==
    LET x == self.x + dx
        y == self.y + dy
    IN  IF ~index_ok(m, x, y)
        THEN [self |-> self, panicked |-> TRUE]
        ELSE IF ~m[self.x][self.y].blocked
             THEN [self |-> [self EXCEPT !.x = x, !.y = y], panicked |-> FALSE]
             ELSE [self |-> self, panicked |-> FALSE]

\* move_by with the test the wrong way round: committed only onto blocked cells.
move_by_inverted(self, dx, dy, m) ==
    LET x == self.x + dx
        y == self.y + dy
    IN  IF ~index_ok(m, x, y)
        THEN [self |-> self, panicked |-> TRUE]
        ELSE IF m[x][y].blocked
             THEN [self |-> [self EXCEPT !.x = x, !.y = y], panicked |-> FALSE]
             ELSE [self |-> self, panicked |-> FALSE]

move_by(self, dx, dy, m) ==
    LET x == self.x + dx
        y == self.y + dy
    IN  IF ~index_ok(m, x, y)
        THEN [self |-> self, panicked |-> TRUE]
        ELSE IF ~m[x][y].blocked
             THEN [self |-> [self EXCEPT !.x = x, !.y = y], panicked |-> FALSE]
             ELSE [self |-> self, panicked |-> FALSE]

----------------------------------------------------------------------------
(* The toolkit's consoles *)

\* A new console: every cell a space, white on black.
Console_new(w, h) ==
    [fore |-> WHITE, back |-> BLACK,
     cells |-> [x \in 0..(w - 1) |-> [y \in 0..(h - 1) |->
                    [ch |-> " ", fg |-> WHITE, bg |-> BLACK]]]]

\* con.clear(): every cell becomes a space in the default colors.
clear(c) ==
    [c EXCEPT !.cells = [x \in DOMAIN c.cells |-> [y \in DOMAIN c.cells[x] |->
                            [ch |-> " ", fg |-> c.fore, bg |-> c.back]]]]

set_default_foreground(c, color) == [c EXCEPT !.fore = color]

\* put_char(x, y, ch, BackgroundFlag::None): character and foreground are set,
\* the background is left as it is; a position outside the console is ignored.
put_char(c, x, y, ch) ==
    IF x \in DOMAIN c.cells /\ y \in DOMAIN c.cells[x]
    THEN [c EXCEPT !.cells[x][y].ch = ch, !.cells[x][y].fg = c.fore]
    ELSE c

\* Object::draw
draw(self, c) == put_char(set_default_foreground(c, self.color), self.x, self.y, self.char)

\* for object in &game.objects { object.draw(&mut tcod.con); }
RECURSIVE draw_objects(_, _, _)
draw_objects(objs, i, c) ==
    IF i > Len(objs) THEN c ELSE draw_objects(objs, i + 1, draw(objs[i], c))

\* The background pass writing whole cells: a space on the tile color.
draw_background_whole_cell(m, c) ==
    [c EXCEPT !.cells = [x \in DOMAIN c.cells |-> [y \in DOMAIN c.cells[x] |->
        IF x \in 0..(MAP_WIDTH - 1) /\ y \in 0..(MAP_HEIGHT - 1)
        THEN [ch |-> " ", fg |-> c.cells[x][y].fg,
              bg |-> IF m[x][y].block_sight THEN COLOR_DARK_WALL
                                            ELSE COLOR_DARK_GROUND]
        ELSE c.cells[x][y]]]]

\* set_char_background(x, y, color, BackgroundFlag::Set) for every map cell
draw_background(m, c) ==
    [c EXCEPT !.cells = [x \in DOMAIN c.cells |-> [y \in DOMAIN c.cells[x] |->
        IF x \in 0..(MAP_WIDTH - 1) /\ y \in 0..(MAP_HEIGHT - 1)
        THEN [c.cells[x][y] EXCEPT !.bg = IF m[x][y].block_sight
                                          THEN COLOR_DARK_WALL
                                          ELSE COLOR_DARK_GROUND]
        ELSE c.cells[x][y]]]]

\* blit(src, (0, 0), (w, h), dst, (0, 0), 1.0, 1.0): the w x h block of src
\* replaces the same block of dst.
blit(src, w, h, dst) ==
    [dst EXCEPT !.cells = [x \in DOMAIN dst.cells |-> [y \in DOMAIN dst.cells[x] |->
        IF x \in 0..(w - 1) /\ y \in 0..(h - 1)
           /\ x \in DOMAIN src.cells /\ y \in DOMAIN src.cells[x]
        THEN src.cells[x][y]
        ELSE dst.cells[x][y]]]]

\* The objects drawn last to first.
draw_all_reversed(objs, c) ==
    draw_objects([i \in 1..Len(objs) |-> objs[Len(objs) + 1 - i]], 1, c)

\* The first pass of render_all: every object, in sequence order.
draw_all(objs, c) == draw_objects(objs, 1, c)

\* render_all: the objects, then the backgrounds, on the offscreen console,
\* which is then blitted onto the root console.
render_all(c, r, objs, m) ==
    LET c1 == draw_background(m, draw_all(objs, c))
    IN  [con |-> c1, root |-> blit(c1, MAP_WIDTH, MAP_HEIGHT, r)]

\* root.flush(): what the root console holds is presented.
flush(r) == r.cells

----------------------------------------------------------------------------
(* handle_keys *)

KeyCodes == {"Up", "Down", "Left", "Right", "Escape", "Enter"}

Keys == [code : KeyCodes, alt : BOOLEAN]

NoKey == [code |-> "NoKey", alt |-> FALSE]

\* handle_keys matching (Up, false), (Down, false), ...: a key that carries
\* alt falls to the last arm.
handle_keys_plain_only(k) ==
    CASE k.alt -> [args |-> <<>>, exit |-> FALSE]
      [] ~k.alt /\ k.code = "Up" -> [args |-> <<0, -1>>, exit |-> FALSE]
      [] ~k.alt /\ k.code = "Down" -> [args |-> <<0, 1>>, exit |-> FALSE]
      [] ~k.alt /\ k.code = "Left" -> [args |-> <<-1, 0>>, exit |-> FALSE]
      [] ~k.alt /\ k.code = "Right" -> [args |-> <<1, 0>>, exit |-> FALSE]
      [] ~k.alt /\ k.code = "Escape" -> [args |-> <<>>, exit |-> TRUE]
      [] OTHER -> [args |-> <<>>, exit |-> FALSE]

\* handle_keys with the y axis the wrong way up: Up passes (0, 1), Down (0, -1).
handle_keys_y_flipped(k) ==
    CASE k.code = "Up" -> [args |-> <<0, 1>>, exit |-> FALSE]
      [] k.code = "Down" -> [args |-> <<0, -1>>, exit |-> FALSE]
      [] k.code = "Left" -> [args |-> <<-1, 0>>, exit |-> FALSE]
      [] k.code = "Right" -> [args |-> <<1, 0>>, exit |-> FALSE]
      [] k.code = "Escape" -> [args |-> <<>>, exit |-> TRUE]
      [] OTHER -> [args |-> <<>>, exit |-> FALSE]

\* handle_keys whose Escape arm does not return true.
handle_keys_escape_returns_false(k) ==
    CASE k.code = "Up" -> [args |-> <<0, -1>>, exit |-> FALSE]
      [] k.code = "Down" -> [args |-> <<0, 1>>, exit |-> FALSE]
      [] k.code = "Left" -> [args |-> <<-1, 0>>, exit |-> FALSE]
      [] k.code = "Right" -> [args |-> <<1, 0>>, exit |-> FALSE]
      [] OTHER -> [args |-> <<>>, exit |-> FALSE]

\* match (code, alt): the arm taken, as the move_by arguments it passes
\* (<<>> when the arm calls nothing) and the value handle_keys returns.
handle_keys(k) ==
    CASE k.code = "Up" -> [args |-> <<0, -1>>, exit |-> FALSE]
      [] k.code = "Down" -> [args |-> <<0, 1>>, exit |-> FALSE]
      [] k.code = "Left" -> [args |-> <<-1, 0>>, exit |-> FALSE]
      [] k.code = "Right" -> [args |-> <<1, 0>>, exit |-> FALSE]
      [] k.code = "Escape" -> [args |-> <<>>, exit |-> TRUE]
      [] OTHER -> [args |-> <<>>, exit |-> FALSE]

----------------------------------------------------------------------------
(* main and game_loop as a state machine *)

\* The state after main has built the consoles and the two objects and
\* make_map has allocated the grid of walls.
Init ==
    /\ map = all_walls
    /\ objects = <<Object_new(25, 23, "@", WHITE), Object_new(25, 25, "@", YELLOW)>>
    /\ con = Console_new(MAP_WIDTH, MAP_HEIGHT)
    /\ root = Console_new(SCREEN_WIDTH, SCREEN_HEIGHT)
    /\ screen = Console_new(SCREEN_WIDTH, SCREEN_HEIGHT).cells
    /\ closed = FALSE
    /\ key = NoKey
    /\ args = <<>>
    /\ pc = "add_room1"

AddRoom1 ==
    /\ pc = "add_room1"
    /\ map' = add_room(room1, map)
    /\ pc' = "add_room2"
    /\ UNCHANGED <<objects, con, root, screen, closed, key, args>>

AddRoom2 ==
    /\ pc = "add_room2"
    /\ map' = add_room(room2, map)
    /\ pc' = "add_h_tunnel"
    /\ UNCHANGED <<objects, con, root, screen, closed, key, args>>

AddHTunnel ==
    /\ pc = "add_h_tunnel"
    /\ map' = add_h_tunnel(25, 55, 23, map)
    /\ pc' = "while"
    /\ UNCHANGED <<objects, con, root, screen, closed, key, args>>

\* The loop head as `loop`: window_closed() is not consulted.
While_ignores_close ==
    /\ pc = "while"
    /\ pc' = "render"
    /\ UNCHANGED <<map, objects, con, root, screen, closed, key, args>>

\* while !tcod.root.window_closed()
While ==
    /\ pc = "while"
    /\ pc' = IF closed THEN "done" ELSE "render"
    /\ UNCHANGED <<map, objects, con, root, screen, closed, key, args>>

\* The loop body with flush called before render_all.
render_frame_flush_first(c, r, objs, m) ==
    LET f == render_all(clear(c), r, objs, m)
    IN  [con |-> f.con, root |-> f.root, screen |-> flush(r)]

\* The loop body without tcod.con.clear().
render_frame_no_clear(c, r, objs, m) ==
    LET f == render_all(c, r, objs, m)
    IN  [con |-> f.con, root |-> f.root, screen |-> flush(f.root)]

\* The three consoles after tcod.con.clear(); render_all(..); tcod.root.flush()
render_frame(c, r, objs, m) ==
    LET f == render_all(clear(c), r, objs, m)
    IN  [con |-> f.con, root |-> f.root, screen |-> flush(f.root)]

\* The loop body up to the blocking call: clear, render_all, flush.
RenderFrame ==
    /\ pc = "render"
    /\ LET f == render_frame(con, root, objects, map)
       IN  /\ con' = f.con
           /\ root' = f.root
           /\ screen' = f.screen
    /\ pc' = "wait_for_keypress"
    /\ UNCHANGED <<map, objects, closed, key, args>>

\* let Key {code, alt, ..} = tcod.root.wait_for_keypress(true)
WaitForKeypress ==
    /\ pc = "wait_for_keypress"
    /\ \E k \in Keys : key' = k
    /\ pc' = "match"
    /\ UNCHANGED <<map, objects, con, root, screen, closed, args>>

\* match (code, alt) { ... }: an arrow arm calls move_by, the other arms
\* return at once (Escape true, and game_loop breaks; anything else false).
Match ==
    /\ pc = "match"
    /\ LET r == handle_keys(key)
       IN  IF r.args # <<>>
           THEN /\ args' = r.args
                /\ pc' = "move_by"
                /\ key' = key
           ELSE /\ args' = <<>>
                /\ pc' = IF r.exit THEN "done" ELSE "while"
                /\ key' = NoKey
    /\ UNCHANGED <<map, objects, con, root, screen, closed>>

\* move_by that digs: the candidate cell is made empty before it is tested.
MoveBy_digs ==
    /\ pc = "move_by"
    /\ map' = [map EXCEPT ![objects[1].x + args[1]][objects[1].y + args[2]] = Tile_empty]
    /\ objects' = [objects EXCEPT ![1] = move_by(objects[1], args[1], args[2], map').self]
    /\ pc' = "while"
    /\ args' = <<>>
    /\ key' = NoKey
    /\ UNCHANGED <<con, root, screen, closed>>

\* handle_keys handed game.objects[1] instead of game.objects[0].
MoveBy_moves_npc ==
    /\ pc = "move_by"
    /\ LET r == move_by(objects[2], args[1], args[2], map)
       IN  /\ objects' = [objects EXCEPT ![2] = r.self]
           /\ pc' = IF r.panicked THEN "panic" ELSE "while"
    /\ args' = <<>>
    /\ key' = NoKey
    /\ UNCHANGED <<map, con, root, screen, closed>>

\* A move that is also refused when another object stands on the candidate.
MoveBy_objects_block ==
    /\ pc = "move_by"
    /\ LET r == move_by(objects[1], args[1], args[2], map)
           taken == \E i \in 2..Len(objects) :
                        <<objects[i].x, objects[i].y>> = <<r.self.x, r.self.y>>
       IN  /\ objects' = IF taken THEN objects ELSE [objects EXCEPT ![1] = r.self]
           /\ pc' = IF r.panicked THEN "panic" ELSE "while"
    /\ args' = <<>>
    /\ key' = NoKey
    /\ UNCHANGED <<map, con, root, screen, closed>>

\* player.move_by(dx, dy, &map) on objects[0], then handle_keys returns false.
MoveBy ==
    /\ pc = "move_by"
    /\ LET r == move_by(objects[1], args[1], args[2], map)
       IN  /\ objects' = [objects EXCEPT ![1] = r.self]
           /\ pc' = IF r.panicked THEN "panic" ELSE "while"
    /\ args' = <<>>
    /\ key' = NoKey
    /\ UNCHANGED <<map, con, root, screen, closed>>

\* The user closes the window: from then on window_closed() is true.
CloseWindow ==
    /\ pc \notin {"done", "panic"}
    /\ ~closed
    /\ closed' = TRUE
    /\ UNCHANGED <<map, objects, con, root, screen, key, args, pc>>

Next ==
    \/ AddRoom1
    \/ AddRoom2
    \/ AddHTunnel
    \/ While
    \/ RenderFrame
    \/ WaitForKeypress
    \/ Match
    \/ MoveBy
    \/ CloseWindow

Spec == Init /\ [][Next]_vars

----------------------------------------------------------------------------
(* move_by on its own: one Object anywhere on the generated map, blocked   *)
(* cells included, called with any step of Steps.                          *)

Steps == {<<0, -1>>, <<0, 1>>, <<-1, 0>>, <<1, 0>>, <<0, 0>>, <<1, 1>>, <<-1, -1>>}

InitMove ==
    /\ map = make_map
    /\ \E x \in 0..(MAP_WIDTH - 1), y \in 0..(MAP_HEIGHT - 1) :
            objects = <<Object_new(x, y, "@", WHITE)>>
    /\ con = Console_new(1, 1)
    /\ root = Console_new(1, 1)
    /\ screen = Console_new(1, 1).cells
    /\ closed = FALSE
    /\ key = NoKey
    /\ args \in Steps
    /\ pc = "move_by"

NextMove == MoveBy

SpecMove == InitMove /\ [][NextMove]_vars

----------------------------------------------------------------------------
(* The scenario "Right is pressed again and again": main and game_loop as   *)
(* in Spec, with every key event a plain Right and the window left open.    *)

WaitForRight ==
    /\ pc = "wait_for_keypress"
    /\ key' = [code |-> "Right", alt |-> FALSE]
    /\ pc' = "match"
    /\ UNCHANGED <<map, objects, con, root, screen, closed, args>>

NextRight ==
    \/ AddRoom1
    \/ AddRoom2
    \/ AddHTunnel
    \/ While
    \/ RenderFrame
    \/ WaitForRight
    \/ Match
    \/ MoveBy

SpecRight == Init /\ [][NextRight]_vars

----------------------------------------------------------------------------
(* Properties *)

\* make_map has returned: the thread is in game_loop or past it.
MapMade == pc \notin {"add_room1", "add_room2", "add_h_tunnel"}

\* The loop's state RUNNING, and TERMINATED.
RUNNING == pc \in {"while", "render", "wait_for_keypress", "match", "move_by"}

TERMINATED == pc = "done"

Pos(o) == <<o.x, o.y>>

Arrows == {"Up", "Down", "Left", "Right"}

\* C1: once make_map has returned, every Object of the game stands on a map
\* cell whose blocked flag is false, whatever keys have been pressed.
C1_ObjectsOnFreeCells ==
    MapMade =>
        \A i \in 1..Len(objects) :
            /\ index_ok(map, objects[i].x, objects[i].y)
            /\ ~map[objects[i].x][objects[i].y].blocked

\* The player has walked from (25,23) to the corner (21,16) of room A, with
\* wall to its left and above.
C1_Witness ==
    /\ pc = "while"
    /\ Pos(objects[1]) = <<21, 16>>
    /\ Pos(objects[2]) = <<25, 25>>

\* The cells the spec lists as empty after generation.
InRoomA(x, y) == 21 <= x /\ x <= 29 /\ 16 <= y /\ y <= 29

InRoomB(x, y) == 51 <= x /\ x <= 59 /\ 16 <= y /\ y <= 29

InTunnel(x, y) == y = 23 /\ 25 <= x /\ x <= 55

\* C2: after make_map the grid is 80 x 45, a cell is empty iff it lies in
\* room A's interior, room B's interior or the tunnel, and is wall otherwise.
C2_MapShape ==
    MapMade =>
        /\ DOMAIN map = 0..79
        /\ \A x \in 0..79 :
            /\ DOMAIN map[x] = 0..44
            /\ \A y \in 0..44 :
                IF InRoomA(x, y) \/ InRoomB(x, y) \/ InTunnel(x, y)
                THEN map[x][y] = Tile_empty
                ELSE map[x][y] = Tile_wall

\* Generation is over and has carved the three regions.
C2_Witness ==
    /\ pc = "while"
    /\ map[21][16] = Tile_empty
    /\ map[59][29] = Tile_empty
    /\ map[40][23] = Tile_empty
    /\ map[20][15] = Tile_wall

\* C3: a move_by call whose candidate cell (x+dx, y+dy) is inside the grid
\* puts the object exactly on the candidate when the candidate is not blocked
\* and leaves it where it is when the candidate is blocked, whether or not
\* the cell it stands on is blocked; nothing else of the object changes, and
\* the object at (20,15) moved by (0,-1) stays at (20,15).
C3_MoveByDecidesOnCandidate ==
    [][pc = "move_by" =>
        LET o == objects[1]
            cx == o.x + args[1]
            cy == o.y + args[2]
        IN  /\ (cx \in 0..(MAP_WIDTH - 1) /\ cy \in 0..(MAP_HEIGHT - 1)) =>
                /\ pc' = "while"
                /\ Pos(objects'[1]) = IF map[cx][cy].blocked THEN Pos(o) ELSE <<cx, cy>>
                /\ objects'[1].char = o.char
                /\ objects'[1].color = o.color
            /\ (Pos(o) = <<20, 15>> /\ args = <<0, -1>>) => Pos(objects'[1]) = <<20, 15>>
    ]_vars

\* move_by has returned and the object stands on the wall cell (20,15): the
\* call left it there, since a move is only ever committed to a free cell.
C3_Witness ==
    /\ pc = "while"
    /\ Pos(objects[1]) = <<20, 15>>
    /\ map[20][15].blocked

\* The cell move_by tries for object o and step d, and where o ends up.
Candidate(o, d) == <<o.x + d[1], o.y + d[2]>>

Attempt(o, d) ==
    IF map[o.x + d[1]][o.y + d[2]].blocked THEN Pos(o) ELSE Candidate(o, d)

\* The step each arrow stands for.
Delta(code) ==
    CASE code = "Up" -> <<0, -1>>
      [] code = "Down" -> <<0, 1>>
      [] code = "Left" -> <<-1, 0>>
      [] code = "Right" -> <<1, 0>>

\* handle_keys is dispatching a key it has read.
Dispatching == pc \in {"match", "move_by"}

\* C4 as stated: an arrow or Escape that carries alt is ignored: while it is
\* dispatched no object changes and the loop does not terminate.
C4_ModifiedKeysIgnored ==
    [][(Dispatching /\ key.alt /\ key.code \in Arrows \cup {"Escape"}) =>
            /\ objects' = objects
            /\ pc' # "done"
    ]_vars

\* C4 amended: dispatch goes by the key code alone. An arrow that carries alt
\* calls move_by on the player with that arrow's step, and the player ends on
\* the candidate cell unless it is blocked; Escape that carries alt
\* terminates the loop.
C4_ModifiedKeysDispatched ==
    [][(key.alt /\ pc' # pc) =>
            /\ (pc = "match" /\ key.code \in Arrows) =>
                    (pc' = "move_by" /\ args' = Delta(key.code))
            /\ (pc = "match" /\ key.code = "Escape") => pc' = "done"
            /\ (pc = "move_by") =>
                    Pos(objects'[1]) = Attempt(objects[1], Delta(key.code))
    ]_vars

\* Alt+Right has been read at (25,23) and has reached the move_by call.
C4_Witness ==
    /\ pc = "move_by"
    /\ key = [code |-> "Right", alt |-> TRUE]
    /\ args = <<1, 0>>
    /\ Pos(objects[1]) = <<25, 23>>

\* C5: in RUNNING, Up, Down, Left and Right call move_by on object index 0
\* with (0,-1), (0,1), (-1,0), (1,0): the player ends on the candidate cell
\* unless it is blocked, no other object changes and the loop stays RUNNING;
\* a key that is neither an arrow nor Escape changes no object and leaves the
\* loop RUNNING.
C5_KeyDispatch ==
    [][(Dispatching /\ pc' # pc) =>
            /\ (pc = "match" /\ key.code \in Arrows) =>
                    /\ pc' = "move_by"
                    /\ args' = Delta(key.code)
                    /\ objects' = objects
            /\ (pc = "move_by") =>
                    /\ key.code \in Arrows
                    /\ args = Delta(key.code)
                    /\ Pos(objects'[1]) = Attempt(objects[1], Delta(key.code))
                    /\ \A i \in 2..Len(objects) : objects'[i] = objects[i]
                    /\ Len(objects') = Len(objects)
                    /\ pc' = "while"
            /\ (pc = "match" /\ key.code \notin Arrows \cup {"Escape"}) =>
                    /\ objects' = objects
                    /\ pc' = "while"
    ]_vars

\* Up has been read with the player below its start cell, where the cell
\* above is free: the call with (0,-1) is about to run.
C5_Witness ==
    /\ pc = "move_by"
    /\ key.code = "Up"
    /\ args = <<0, -1>>
    /\ Pos(objects[1]) = <<25, 24>>

\* handle_keys has read Escape and is about to return true.
EscapeRead == pc = "match" /\ key.code = "Escape"

\* C6: Escape read in RUNNING takes the loop to TERMINATED; from the moment
\* it is read no object, map cell or console cell changes again, and
\* TERMINATED is never left.
C6_EscapeTerminates ==
    [][/\ (EscapeRead /\ pc' # pc) => pc' = "done"
       /\ (EscapeRead \/ TERMINATED) =>
            UNCHANGED <<objects, map, con, root, screen>>
       /\ TERMINATED => pc' = "done"
    ]_vars

\* The loop has ended by Escape: the window was never closed. The player had
\* moved before.
C6_Witness ==
    /\ TERMINATED
    /\ ~closed
    /\ Pos(objects[1]) = <<26, 23>>

\* C7 as stated: once the window is closed no object position changes.
C7_NoMoveAfterClose ==
    [][closed => (\A i \in 1..Len(objects) : Pos(objects'[i]) = Pos(objects[i]))]_vars

\* C7 amended: the close is seen only where the loop condition is evaluated.
\* Once the window is closed, the next evaluation of the condition ends the
\* loop, so no new iteration starts; the iteration in progress is finished
\* first, and the key its handle_keys reads is dispatched as usual.
C7_CloseSeenAtLoopHead ==
    [][closed =>
            /\ (pc = "while" /\ pc' # pc) => pc' = "done"
            /\ (pc' = "render") => pc = "render"
            /\ (pc = "move_by" /\ pc' # pc) =>
                    Pos(objects'[1]) = Attempt(objects[1], args)
    ]_vars

\* The loop has ended at the loop head on the close, right after the player
\* moved: the last frame still shows the player on the cell it left.
C7_Witness ==
    /\ TERMINATED
    /\ closed
    /\ Pos(objects[1]) = <<26, 23>>
    /\ screen[26][23].ch = " "
    /\ screen[25][23].ch = "@"

\* The objects standing on cell (x, y), by index, and the last of them.
ObjectsAt(x, y) == {i \in 1..Len(objects) : Pos(objects[i]) = <<x, y>>}

Last(S) == CHOOSE i \in S : \A j \in S : j <= i

\* What a frame composed from the current objects and map holds in the map
\* area: the tile's background, and the last object's glyph and color where
\* an object stands, a space elsewhere.
FrameShows(cells) ==
    \A x \in 0..(MAP_WIDTH - 1), y \in 0..(MAP_HEIGHT - 1) :
        /\ cells[x][y].bg = IF map[x][y].block_sight THEN COLOR_DARK_WALL
                                                     ELSE COLOR_DARK_GROUND
        /\ IF ObjectsAt(x, y) = {}
           THEN cells[x][y].ch = " "
           ELSE /\ cells[x][y].ch = objects[Last(ObjectsAt(x, y))].char
                /\ cells[x][y].fg = objects[Last(ObjectsAt(x, y))].color

\* C8: an iteration clears, renders, presents and then blocks for one key:
\* whenever the loop is blocked in wait_for_keypress the presented frame is
\* the one composed from the current objects and map; nothing but the read
\* of the key happens while it is blocked, and one frame is presented for
\* each key read.
C8_FrameThenOneKey ==
    /\ [](pc = "wait_for_keypress" => FrameShows(screen))
    /\ [][
            /\ (pc = "wait_for_keypress") =>
                    /\ UNCHANGED <<objects, map, con, root, screen>>
                    /\ pc' \in {"wait_for_keypress", "match"}
            /\ (pc = "render" /\ pc' # pc) =>
                    (pc' = "wait_for_keypress" /\ UNCHANGED <<objects, map>>)
            /\ (pc' = "wait_for_keypress") => pc \in {"render", "wait_for_keypress"}
            /\ (pc' = "render") => pc \in {"while", "render"}
       ]_vars

\* The loop is blocked for a key after the player has moved to (30,23): the
\* presented frame shows it there and not on the cell it left.
C8_Witness ==
    /\ pc = "wait_for_keypress"
    /\ Pos(objects[1]) = <<30, 23>>
    /\ screen[30][23].ch = "@"
    /\ screen[29][23].ch = " "

\* render_all has composed the frame from the objects as they are now.
FrameComposed == pc \in {"wait_for_keypress", "match", "move_by"}

\* C9: in a composed frame, a cell on which two or more objects stand shows
\* the glyph and the foreground color of the one that is last in the object
\* sequence, on the offscreen console and on the root console.
C9_LastObjectWins ==
    FrameComposed =>
        \A i \in 1..Len(objects), j \in 1..Len(objects) :
            (i < j /\ Pos(objects[i]) = Pos(objects[j])
                   /\ \A k \in (j + 1)..Len(objects) : Pos(objects[k]) # Pos(objects[j])) =>
                /\ con.cells[objects[j].x][objects[j].y].ch = objects[j].char
                /\ con.cells[objects[j].x][objects[j].y].fg = objects[j].color
                /\ root.cells[objects[j].x][objects[j].y].ch = objects[j].char
                /\ root.cells[objects[j].x][objects[j].y].fg = objects[j].color

\* The player stands on the NPC's cell (25,25) and the frame shows the NPC's
\* yellow '@' there.
C9_Witness ==
    /\ pc = "wait_for_keypress"
    /\ Pos(objects[1]) = <<25, 25>>
    /\ Pos(objects[2]) = <<25, 25>>
    /\ objects[1].color = WHITE
    /\ con.cells[25][25].ch = "@"
    /\ con.cells[25][25].fg = YELLOW

\* C10: in a composed frame every map cell's background is the dark-wall
\* color if the cell's block_sight is true and the dark-ground color if it
\* is false, under an object or not; and every object's cell still holds a
\* glyph and color of an object standing there.
C10_Backgrounds ==
    FrameComposed =>
        /\ \A x \in 0..(MAP_WIDTH - 1), y \in 0..(MAP_HEIGHT - 1) :
                /\ (con.cells[x][y].bg = COLOR_DARK_WALL) <=> map[x][y].block_sight
                /\ (con.cells[x][y].bg = COLOR_DARK_GROUND) <=> ~map[x][y].block_sight
        /\ \A i \in 1..Len(objects) :
                \E j \in ObjectsAt(objects[i].x, objects[i].y) :
                    /\ con.cells[objects[i].x][objects[i].y].ch = objects[j].char
                    /\ con.cells[objects[i].x][objects[i].y].fg = objects[j].color

\* A composed frame with the player's white '@' on dark ground at the edge
\* of room A and the wall cell next to it.
C10_Witness ==
    /\ pc = "wait_for_keypress"
    /\ Pos(objects[1]) = <<21, 23>>
    /\ con.cells[21][23] = [ch |-> "@", fg |-> WHITE, bg |-> COLOR_DARK_GROUND]
    /\ con.cells[20][23].bg = COLOR_DARK_WALL
    /\ map[20][23].block_sight

\* C11: from player (25,23) and NPC (25,25), with every key event a Right,
\* each of the first four events succeeds: the move_by call it makes from
\* x = 25, 26, 27, 28 on row 23 raises x by exactly 1 and keeps y = 23, so
\* the fourth leaves the player at (29,23); the NPC stays at (25,25). Until
\* then the player's x is 25 plus the number of events handled.
C11_FourRights ==
    /\ [](Pos(objects[2]) = <<25, 25>> /\ objects[1].y = 23 /\ objects[1].x >= 25)
    /\ [][
            (pc = "move_by" /\ objects[1].x \in 25..28) =>
                /\ key.code = "Right"
                /\ Pos(objects[1]) = <<objects[1].x, 23>>
                /\ Pos(objects'[1]) = <<objects[1].x + 1, 23>>
                /\ (objects[1].x = 28 => Pos(objects'[1]) = <<29, 23>>)
       ]_vars

\* The fourth Right has been handled: the player is at (29,23) and the frame
\* of the next iteration shows it there.
C11_Witness ==
    /\ pc = "wait_for_keypress"
    /\ Pos(objects[1]) = <<29, 23>>
    /\ Pos(objects[2]) = <<25, 25>>
    /\ screen[29][23].ch = "@"

\* The cells of the grid's border.
Border == {c \in (0..(MAP_WIDTH - 1)) \X (0..(MAP_HEIGHT - 1)) :
              c[1] \in {0, MAP_WIDTH - 1} \/ c[2] \in {0, MAP_HEIGHT - 1}}

\* C12: whatever keys are pressed, the candidate position with which move_by
\* indexes the map has 0 <= x+dx < 80 and 0 <= y+dy < 45, so no index
\* panics; and once the map is made every cell of the grid's border is wall.
C12_IndicesInGrid ==
    /\ pc # "panic"
    /\ (pc = "move_by") =>
            /\ 0 <= objects[1].x + args[1] /\ objects[1].x + args[1] < 80
            /\ 0 <= objects[1].y + args[2] /\ objects[1].y + args[2] < 45
    /\ MapMade => \A c \in Border : map[c[1]][c[2]] = Tile_wall

\* The player, in the corner (21,16) of room A, is about to try the wall
\* cell (20,16) to its left: as near the outside of the grid as a candidate
\* gets on that side.
C12_Witness ==
    /\ pc = "move_by"
    /\ Pos(objects[1]) = <<21, 16>>
    /\ args = <<-1, 0>>
    /\ map[20][16].blocked

\* C13: once make_map has returned no map cell changes: every step of the
\* loop, of key handling and of rendering leaves the map as it is.
C13_MapImmutable == [][MapMade => map' = map]_vars

\* The player has walked into the tunnel and a frame has been rendered since;
\* the cells around it are as generated.
C13_Witness ==
    /\ pc = "wait_for_keypress"
    /\ Pos(objects[1]) = <<31, 23>>
    /\ map[30][22] = Tile_wall
    /\ map[31][22] = Tile_wall
    /\ map[31][23] = Tile_empty

\* C14: every cell is wall before the first carve step; the steps run in the
\* order add_room, add_room, add_h_tunnel; and a step never turns an empty
\* cell back: a cell that is empty before a step is empty after it, also
\* where the tunnel runs over cells a room has carved.
C14_CarvingOnlyEmpties ==
    /\ []((pc = "add_room1") =>
            \A x \in 0..(MAP_WIDTH - 1), y \in 0..(MAP_HEIGHT - 1) : map[x][y] = Tile_wall)
    /\ [][
            (~MapMade /\ pc' # pc) =>
                /\ <<pc, pc'>> \in {<<"add_room1", "add_room2">>,
                                    <<"add_room2", "add_h_tunnel">>,
                                    <<"add_h_tunnel", "while">>}
                /\ \A x \in 0..(MAP_WIDTH - 1), y \in 0..(MAP_HEIGHT - 1) :
                        (map[x][y] = Tile_empty) => (map'[x][y] = Tile_empty)
       ]_vars

\* The tunnel step is about to run over (25,23), which room A's step has
\* already carved, and over (30,23), which is still wall.
C14_Witness ==
    /\ pc = "add_h_tunnel"
    /\ map[25][23] = Tile_empty
    /\ map[55][23] = Tile_empty
    /\ map[30][23] = Tile_wall

\* C15: at every step of generation and ever after, each map cell has
\* blocked = block_sight: it is the empty tile (both false) or the wall tile
\* (both true).
C15_CanonicalTiles ==
    \A x \in 0..(MAP_WIDTH - 1), y \in 0..(MAP_HEIGHT - 1) :
        /\ map[x][y].blocked = map[x][y].block_sight
        /\ \/ map[x][y] = [blocked |-> FALSE, block_sight |-> FALSE]
           \/ map[x][y] = [blocked |-> TRUE, block_sight |-> TRUE]

\* Generation is over, with both kinds of tile on the map, and the loop runs.
C15_Witness ==
    /\ pc = "render"
    /\ map[25][23] = [blocked |-> FALSE, block_sight |-> FALSE]
    /\ map[0][0] = [blocked |-> TRUE, block_sight |-> TRUE]

\* C16: key handling changes nothing of the objects but the position of
\* object index 0: there are always two objects, the NPC second and at
\* (25,25) with its yellow '@', the player first with its white '@'.
C16_OnlyPlayerPositionChanges ==
    /\ Len(objects) = 2
    /\ objects[2] = [x |-> 25, y |-> 25, char |-> "@", color |-> YELLOW]
    /\ objects[1].char = "@"
    /\ objects[1].color = WHITE

\* Keys have moved the player up and to the right; the NPC is where it was.
C16_Witness ==
    /\ pc = "while"
    /\ Pos(objects[1]) = <<27, 21>>
    /\ Pos(objects[2]) = <<25, 25>>

\* C17: other objects do not block a move. A move_by call whose candidate
\* is a cell on which another object stands ends with the player on that
\* cell when the cell's tile is not blocked, exactly as on a cell with no
\* object; so the player can stand on the NPC's cell.
C17_ObjectsDoNotBlock ==
    [][(pc = "move_by" /\ pc' # pc) =>
            \A i \in 2..Len(objects) :
                (Candidate(objects[1], args) = Pos(objects[i])
                    /\ ~map[objects[i].x][objects[i].y].blocked) =>
                        Pos(objects'[1]) = Pos(objects[i])
    ]_vars

\* The player has stepped onto the NPC's cell (25,25).
C17_Witness ==
    /\ pc = "while"
    /\ Pos(objects[1]) = <<25, 25>>
    /\ Pos(objects[2]) = <<25, 25>>

\* The steps the four arrows pass to move_by.
ArrowSteps == {handle_keys([code |-> c, alt |-> FALSE]).args : c \in Arrows}

\* Where one arrow key event can take an object that stands on cell p.
StepFrom(p, m) ==
    {Pos(move_by(Object_new(p[1], p[2], "@", WHITE), d[1], d[2], m).self) : d \in ArrowSteps}

\* The cells reachable from the cells S by sequences of arrow key events.
RECURSIVE Reach(_, _)
Reach(S, m) ==
    LET N == S \cup UNION {StepFrom(p, m) : p \in S}
    IN  IF N = S THEN S ELSE Reach(N, m)

EmptyCells(m) ==
    {c \in (0..(MAP_WIDTH - 1)) \X (0..(MAP_HEIGHT - 1)) : ~m[c[1]][c[2]].blocked}

\* game_loop is entered and nothing has been presented yet.
LoopEntry == pc = "while" /\ screen = Console_new(SCREEN_WIDTH, SCREEN_HEIGHT).cells

\* C18: on the generated map the cells the player can reach from (25,23) by
\* arrow key events are exactly the empty cells: the closure of its start
\* cell under the four arrow moves is the set of non-blocked cells (273 of
\* them: the two rooms and the tunnel are one region), and the player is
\* never on any other cell.
C18_ReachableIsEmptyCells ==
    /\ LoopEntry =>
            /\ Pos(objects[1]) = <<25, 23>>
            /\ Reach({Pos(objects[1])}, map) = EmptyCells(map)
            /\ Cardinality(EmptyCells(map)) = 273
    /\ MapMade => Pos(objects[1]) \in EmptyCells(map)

\* The player has crossed the tunnel to the far corner of room B.
C18_Witness ==
    /\ pc = "while"
    /\ Pos(objects[1]) = <<59, 29>>

\* C19: a presented frame holds a glyph on a map cell exactly where an
\* object stands now; the cell the player has left holds a space again
\* unless another object stands on it.
C19_GlyphIffObject ==
    (pc = "wait_for_keypress") =>
        \A x \in 0..(MAP_WIDTH - 1), y \in 0..(MAP_HEIGHT - 1) :
            (screen[x][y].ch # " ") <=>
                (\E i \in 1..Len(objects) : Pos(objects[i]) = <<x, y>>)

\* The player has moved from (25,23) to (26,23) and the next frame is
\* presented: no glyph on the cell it left.
C19_Witness ==
    /\ pc = "wait_for_keypress"
    /\ Pos(objects[1]) = <<26, 23>>
    /\ screen[26][23].ch = "@"
    /\ screen[25][23].ch = " "
    /\ screen[25][25].ch = "@"

====
